---- MODULE Spec2Model ----
(***************************************************************************)
(* Set-transformer attention layers of acp/modules/attention.py:           *)
(* MAB, SAB, StackedSAB, PMA, ISAB, StackedISAB and aPMA.                  *)
(*                                                                         *)
(* Tensors are nested sequences (batch, set position, feature) of extended *)
(* rationals <<n, d>>: d > 0 is the number n/d in lowest terms, <<1, 0>>   *)
(* is +inf, <<-1, 0>> is -inf and <<0, 0>> is NaN.  Arithmetic is exact.   *)
(* Two library functions have no rational value and are replaced by        *)
(* rational functions of the same shape: math.sqrt by the integer square   *)
(* root and exp by the piecewise-linear interpolant of 2^x (strictly       *)
(* increasing, positive, 1 at 0, 0 at -inf, NaN at NaN).  Normalisation    *)
(* and dropout are the identity (ln=False, p=None, the defaults).          *)
(* A torch operation that raises yields the tensor Raise, which every      *)
(* later operation propagates.                                             *)
(***************************************************************************)
EXTENDS Integers, Sequences, FiniteSets, TLC

----------------------------------------------------------------------------
(* Extended rationals *)

Abs(n) == IF n < 0 THEN -n ELSE n

Min(a, b) == IF a < b THEN a ELSE b

Max(a, b) == IF a < b THEN b ELSE a

Sgn(n) == IF n < 0 THEN -1 ELSE IF n > 0 THEN 1 ELSE 0

RECURSIVE GCD(_, _)
GCD(a, b) == IF b = 0 THEN a ELSE GCD(b, a % b)

Norm(n, d) ==
  IF d = 1 THEN <<n, 1>>
  ELSE IF d = 0 THEN <<Sgn(n), 0>>
  ELSE LET g == GCD(Abs(n), Abs(d))
           s == Sgn(d)
       IN <<s * (n \div g), s * (d \div g)>>

R(n) == <<n, 1>>

Zero == R(0)

NaN == <<0, 0>>

NegInf == <<-1, 0>>

IsNaN(x) == x = NaN

IsFinite(x) == x[2] # 0

RAdd(x, y) ==
  IF x[2] = 1 /\ y[2] = 1 THEN <<x[1] + y[1], 1>>
  ELSE IF IsFinite(x) /\ IsFinite(y) THEN Norm(x[1] * y[2] + y[1] * x[2], x[2] * y[2])
  ELSE IF IsNaN(x) \/ IsNaN(y) THEN NaN
  ELSE IF ~IsFinite(x) /\ ~IsFinite(y) THEN (IF x = y THEN x ELSE NaN)
  ELSE IF IsFinite(x) THEN y ELSE x

RNeg(x) == <<-x[1], x[2]>>

RSub(x, y) == RAdd(x, RNeg(y))

RMul(x, y) ==
  IF x[2] = 1 /\ y[2] = 1 THEN <<x[1] * y[1], 1>>
  ELSE IF IsFinite(x) /\ IsFinite(y) THEN Norm(x[1] * y[1], x[2] * y[2])
  ELSE IF IsNaN(x) \/ IsNaN(y) THEN NaN
  ELSE IF x = Zero \/ y = Zero THEN NaN
  ELSE <<Sgn(x[1]) * Sgn(y[1]), 0>>

RDiv(x, y) ==
  IF IsNaN(x) \/ IsNaN(y) THEN NaN
  ELSE IF IsFinite(x) /\ IsFinite(y) THEN Norm(x[1] * y[2], x[2] * y[1])
  ELSE IF IsFinite(x) THEN Zero
  ELSE IF IsFinite(y) THEN <<Sgn(x[1]) * (IF y[1] < 0 THEN -1 ELSE 1), 0>>
  ELSE NaN

RLess(x, y) == x[1] * y[2] < y[1] * x[2]

RRelu(x) == IF IsNaN(x) THEN NaN ELSE IF RLess(x, Zero) THEN Zero ELSE x

\* the number of steps of RExp below 1
ExpLevels == 3

\* exp, as torch.softmax uses it: a positive nondecreasing step function,
\* 1 at 0 and 1/(1 + min(ceil(-x), ExpLevels)) below 0; 0 at -inf, NaN at NaN
RExp(x) ==
  IF IsNaN(x) THEN NaN
  ELSE IF ~IsFinite(x) THEN (IF x = NegInf THEN Zero ELSE x)
  ELSE LET f == x[1] \div x[2]
       IN IF f >= 0 THEN R(1 + Min(f, ExpLevels)) ELSE <<1, 1 + Min(-f, ExpLevels)>>

\* math.sqrt: the integer square root (exact on perfect squares)
ISqrt(n) == CHOOSE r \in 0..n : r * r <= n /\ (r + 1) * (r + 1) > n

RECURSIVE RSumTo(_, _)
RSumTo(s, n) == IF n = 0 THEN Zero ELSE RAdd(RSumTo(s, n - 1), s[n])

\* the sum of a sequence, left to right
RSum(s) == RSumTo(s, Len(s))

RECURSIVE RMaxTo(_, _)
RMaxTo(s, n) ==
  IF n = 1 THEN s[1]
  ELSE LET m == RMaxTo(s, n - 1)
       IN IF IsNaN(s[n]) \/ IsNaN(m) THEN NaN
          ELSE IF RLess(m, s[n]) THEN s[n] ELSE m

\* the maximum of a non-empty sequence
RMax(s) == RMaxTo(s, Len(s))

RECURSIVE DotTo(_, _, _)
DotTo(u, v, n) == IF n = 0 THEN Zero ELSE RAdd(DotTo(u, v, n - 1), RMul(u[n], v[n]))

Dot(u, v) == DotTo(u, v, Len(u))

----------------------------------------------------------------------------
(* Tensors: the torch operations the layers call *)

\* the result of an operation that raised (no tensor has an empty batch axis)
Raise == <<>>

IsRaise(T) == T = Raise

\* a [B, n, d] tensor is rectangular: every batch element has n rows of d entries
Shape(T) == IF IsRaise(T) THEN <<0, 0, 0>> ELSE <<Len(T), Len(T[1]), Len(T[1][1])>>

\* the sequence <<F(1), ..., F(n)>>
SeqOf(F(_), n) == [i \in 1..n |-> F(i)]

\* the [b, n, d] tensor of the entries F(i, j, k)
Tensor(F(_, _, _), b, n, d) ==
  [i \in 1..b |-> [j \in 1..n |-> [k \in 1..d |-> F(i, j, k)]]]

Fill(b, n, d, v) == Tensor(LAMBDA i, j, k : v, b, n, d)

CeilDiv(a, b) == (a + b - 1) \div b

\* rows lo..hi of T along axis 0 (batch), 1 (set) or 2 (feature)
Slice(T, axis, lo, hi) ==
  IF axis = 0 THEN SubSeq(T, lo, hi)
  ELSE IF axis = 1 THEN SeqOf(LAMBDA i : SubSeq(T[i], lo, hi), Len(T))
  ELSE SeqOf(LAMBDA i : SeqOf(LAMBDA j : SubSeq(T[i][j], lo, hi), Len(T[i])), Len(T))

\* torch.chunk: pieces of ceil(size/chunks) along the axis, the last one
\* possibly smaller, and fewer than `chunks` pieces when they cover the axis
Chunk(T, chunks, axis) ==
  IF IsRaise(T) THEN <<Raise>>
  ELSE LET size == Shape(T)[axis + 1]
           cs == CeilDiv(size, chunks)
           cnt == CeilDiv(size, cs)
       IN SeqOf(LAMBDA c : Slice(T, axis, (c - 1) * cs + 1, Min(c * cs, size)), cnt)

RECURSIVE Concat(_)
Concat(ss) == IF ss = <<>> THEN <<>> ELSE Head(ss) \o Concat(Tail(ss))

\* torch.cat: the pieces agree on every axis but the one they are joined on
Cat(Ts, axis) ==
  IF \E c \in 1..Len(Ts) : IsRaise(Ts[c]) THEN Raise
  ELSE IF \E c \in 1..Len(Ts) : \E a \in {0, 1, 2} \ {axis} :
            Shape(Ts[c])[a + 1] # Shape(Ts[1])[a + 1] THEN Raise
  ELSE IF axis = 0 THEN Concat(Ts)
  ELSE IF axis = 1 THEN
    SeqOf(LAMBDA i : Concat(SeqOf(LAMBDA c : Ts[c][i], Len(Ts))), Len(Ts[1]))
  ELSE
    SeqOf(LAMBDA i : SeqOf(LAMBDA j :
        Concat(SeqOf(LAMBDA c : Ts[c][i][j], Len(Ts))), Len(Ts[1][1])), Len(Ts[1]))

\* nn.Linear L = [W |-> out x in weights, b |-> out biases] on the last axis
Linear(L, T) ==
  IF IsRaise(T) \/ Shape(T)[3] # Len(L.W[1]) THEN Raise
  ELSE Tensor(LAMBDA i, j, o : RAdd(Dot(T[i][j], L.W[o]), L.b[o]),
              Len(T), Len(T[1]), Len(L.W))

\* the size two broadcast axes give, 0 when they do not broadcast
Bcast(a, b) == IF a = b THEN a ELSE IF a = 1 THEN b ELSE IF b = 1 THEN a ELSE 0

Ix(i, size) == IF size = 1 THEN 1 ELSE i

\* Q_ @ K_.transpose(-2, -1): [B, nx, d] x [B, ny, d] -> [B, nx, ny]
MatMulT(Qh, Kh) ==
  IF IsRaise(Qh) \/ IsRaise(Kh) THEN Raise
  ELSE LET B == Bcast(Len(Qh), Len(Kh))
       IN IF B = 0 \/ Shape(Qh)[3] # Shape(Kh)[3] THEN Raise
          ELSE Tensor(LAMBDA i, x, y :
                        Dot(Qh[Ix(i, Len(Qh))][x], Kh[Ix(i, Len(Kh))][y]),
                      B, Len(Qh[1]), Len(Kh[1]))

\* A @ V_: [B, nx, ny] x [B, ny, d] -> [B, nx, d]
MatMul(A, Vh) ==
  IF IsRaise(A) \/ IsRaise(Vh) THEN Raise
  ELSE LET B == Bcast(Len(A), Len(Vh))
       IN IF B = 0 \/ Shape(A)[3] # Shape(Vh)[2] THEN Raise
          ELSE Tensor(LAMBDA i, x, k :
                        RSum(SeqOf(LAMBDA y : RMul(A[Ix(i, Len(A))][x][y],
                                                   Vh[Ix(i, Len(Vh))][y][k]),
                                   Len(Vh[1]))),
                      B, Len(A[1]), Len(Vh[1][1]))

\* elementwise map
Map1(F(_), T) ==
  IF IsRaise(T) THEN Raise
  ELSE Tensor(LAMBDA i, j, k : F(T[i][j][k]), Len(T), Len(T[1]), Len(T[1][1]))

\* S + T with broadcasting
Add(S, T) ==
  IF IsRaise(S) \/ IsRaise(T) THEN Raise
  ELSE LET sh == <<Bcast(Shape(S)[1], Shape(T)[1]), Bcast(Shape(S)[2], Shape(T)[2]),
                   Bcast(Shape(S)[3], Shape(T)[3])>>
       IN IF \E a \in 1..3 : sh[a] = 0 THEN Raise
          ELSE Tensor(LAMBDA i, j, k :
                  RAdd(S[Ix(i, Len(S))][Ix(j, Len(S[1]))][Ix(k, Len(S[1][1]))],
                       T[Ix(i, Len(T))][Ix(j, Len(T[1]))][Ix(k, Len(T[1][1]))]),
                  sh[1], sh[2], sh[3])

\* no entry filled
MaskedFillSkip(A, M, v) == A

\* A.masked_fill(M, v): M broadcasts to the shape of A
MaskedFill(A, M, v) ==
  IF IsRaise(A) \/ IsRaise(M) THEN Raise
  ELSE IF \E a \in 1..3 : Shape(M)[a] \notin {1, Shape(A)[a]} THEN Raise
  ELSE Tensor(LAMBDA i, j, k :
                IF M[Ix(i, Len(M))][Ix(j, Len(M[1]))][Ix(k, Len(M[1][1]))]
                THEN v ELSE A[i][j][k],
              Len(A), Len(A[1]), Len(A[1][1]))

\* all the weight on the first position
SoftmaxRowFirst(row) == [k \in 1..Len(row) |-> IF k = 1 THEN R(1) ELSE Zero]

\* torch.softmax over one row: exp(x - max) / sum(exp(x - max))
SoftmaxRow(row) ==
  LET m == RMax(row)
      e == SeqOf(LAMBDA k : RExp(RSub(row[k], m)), Len(row))
      s == RSum(e)
  IN SeqOf(LAMBDA k : RDiv(e[k], s), Len(row))

\* torch.softmax(A, -1)
Softmax(A) ==
  IF IsRaise(A) THEN Raise
  ELSE SeqOf(LAMBDA i : SeqOf(LAMBDA j : SoftmaxRow(A[i][j]), Len(A[i])), Len(A))

\* torch.stack([mask] * nx, -2): [batch, ny] -> [batch, nx, ny]
StackRows(mask, nx) == SeqOf(LAMBDA i : SeqOf(LAMBDA x : mask[i], nx), Len(mask))

\* [T] * n
Times(T, n) == SeqOf(LAMBDA c : T, n)

\* T.repeat(n, 1, 1)
Repeat(T, n) == Cat(Times(T, n), 0)

----------------------------------------------------------------------------
(* Parameters.  nn.Linear and xavier_uniform_ draw the initial values at    *)
(* random; the model draws them from a family indexed by a seed: a weight   *)
(* row has a single 1, biases are -1, 0 or 1, seed vectors are 0 or 1.      *)

\* nn.Linear(in, out)
NewLinear(in, out, seed) ==
  [W |-> [o \in 1..out |-> [k \in 1..in |->
            IF k = ((o + seed) % in) + 1 THEN R(1) ELSE Zero]],
   b |-> [o \in 1..out |-> R(((o + seed) % 3) - 1)]]

\* an absent mask (mask=None)
None == <<>>

\* MAB.__init__, with ln=False and p=None
NewMAB(dim_X, dim_Y, dim, num_heads, residual, seed) ==
  [num_heads |-> num_heads,
   fc_q |-> NewLinear(dim_X, dim, seed),
   fc_k |-> NewLinear(dim_Y, dim, seed + 1),
   fc_v |-> NewLinear(dim_Y, dim, seed + 2),
   fc_o |-> NewLinear(dim, dim, seed + 1),
   residual |-> residual]

----------------------------------------------------------------------------
(* MAB.forward *)

\* the heads stacked along the set axis
SplitHeadsSet(T, num_heads) == Cat(Chunk(T, num_heads, 2), 1)

\* torch.cat(T.chunk(num_heads, -1), 0)
SplitHeads(T, num_heads) == Cat(Chunk(T, num_heads, 2), 0)

\* the NaN entries kept
ZeroNaNSkip(A) == A

\* A.masked_fill(torch.isnan(A), 0.0)
ZeroNaN(A) == MaskedFill(A, Map1(IsNaN, A), Zero)

\* the tensors MAB.forward computes, under the names it gives them
MABRun(P, X, Y, mask) ==
  LET Q == Linear(P.fc_q, X)
      K == Linear(P.fc_k, Y)
      V == Linear(P.fc_v, Y)
      Q_ == SplitHeads(Q, P.num_heads)
      K_ == SplitHeads(K, P.num_heads)
      V_ == SplitHeads(V, P.num_heads)
      \* (Q_ @ K_.transpose(-2, -1)) / math.sqrt(Q.shape[-1])
      s == R(ISqrt(Shape(Q)[3]))
      A_logits == Map1(LAMBDA x : RDiv(x, s), MatMulT(Q_, K_))
      \* torch.stack([mask] * Q.shape[-2], -2), torch.cat([mask] * num_heads, 0)
      mask3 == IF IsRaise(Q) THEN Raise
               ELSE Cat(Times(StackRows(mask, Shape(Q)[2]), P.num_heads), 0)
      filled == MaskedFill(A_logits, Map1(LAMBDA v : v = 0, mask3), NegInf)
      Am == Softmax(filled)
      A == IF mask # None THEN ZeroNaN(Am) ELSE Softmax(A_logits)
      attn == Cat(Chunk(MatMul(A, V_), P.num_heads, 0), 2)
      O1 == IF P.residual THEN Add(Q, attn) ELSE attn
      O == Add(O1, Map1(RRelu, Linear(P.fc_o, O1)))
  IN [Q |-> Q, Q_ |-> Q_, K_ |-> K_, V_ |-> V_, A_logits |-> A_logits,
      A |-> A, attn |-> attn, O |-> O]

MABForward(P, X, Y, mask) == MABRun(P, X, Y, mask).O

----------------------------------------------------------------------------
(* The modules.  An object is a record [I0, pma, mab]; a part a class does  *)
(* not have is absent (NoTensor, NoPMA, NoMAB).  kw is **kwargs.            *)

NoTensor == <<>>

NoLinear == [W |-> <<>>, b |-> <<>>]

NoMAB ==
  [num_heads |-> 0, fc_q |-> NoLinear, fc_k |-> NoLinear, fc_v |-> NoLinear,
   fc_o |-> NoLinear, residual |-> FALSE]

NoPMA == [I |-> NoTensor, mab |-> NoMAB]

\* nn.Parameter(torch.Tensor(rows, dim)) after xavier_uniform_
NewSeeds(rows, dim, seed) == [i \in 1..rows |-> [k \in 1..dim |-> R((i + k + seed) % 2)]]

NewMABObj(dim_X, dim_Y, dim, kw, seed) ==
  [I0 |-> NoTensor, pma |-> NoPMA,
   mab |-> NewMAB(dim_X, dim_Y, dim, kw.num_heads, kw.residual, seed)]

\* SAB.__init__
NewSAB(dim_X, dim, kw, seed) ==
  [I0 |-> NoTensor, pma |-> NoPMA,
   mab |-> NewMAB(dim_X, dim_X, dim, kw.num_heads, kw.residual, seed)]

\* PMA.__init__
NewPMA(dim_X, dim, num_inds, kw, seed) ==
  [I |-> NewSeeds(num_inds, dim, seed),
   mab |-> NewMAB(dim, dim_X, dim, kw.num_heads, kw.residual, seed)]

NewPMAObj(dim_X, dim, num_inds, kw, seed) ==
  [I0 |-> NoTensor, pma |-> NewPMA(dim_X, dim, num_inds, kw, seed), mab |-> NoMAB]

\* ISAB.__init__
NewISAB(dim_X, dim, num_inds, kw, seed) ==
  [I0 |-> NoTensor,
   pma |-> NewPMA(dim_X, dim, num_inds, kw, seed),
   mab |-> NewMAB(dim_X, dim, dim, kw.num_heads, kw.residual, seed + 1)]

\* aPMA.__init__
NewaPMA(dim_X, dim, kw, seed) ==
  [I0 |-> <<NewSeeds(1, dim, seed + 1)>>,
   pma |-> NewPMA(dim, dim, 1, kw, seed),
   mab |-> NewMAB(dim, dim_X, dim, kw.num_heads, kw.residual, seed + 1)]

\* a list with an instance of its own at every position
StackBlocksFresh(num_blocks) == [j \in 1..Max(num_blocks, 1) |-> j]

\* the instances of the nn.ModuleList of a stack: [first] + [later] * (num_blocks - 1)
StackBlocks(num_blocks) == <<1>> \o Times(2, num_blocks - 1)

Range(f) == {f[x] : x \in DOMAIN f}

\* SAB.forward
SABForward(o, X, mask) == MABForward(o.mab, X, X, mask)

\* PMA.forward on a batched X
PMAForward(pma, X, mask) ==
  IF IsRaise(X) THEN Raise
  ELSE MABForward(pma.mab, Times(pma.I, Len(X)), X, mask)

\* ISAB.forward
ISABForward(o, X, mask) == MABForward(o.mab, X, PMAForward(o.pma, X, mask), None)

----------------------------------------------------------------------------
(* State *)

VARIABLES
  pc,      \* "start", "built", "stack", "apma", "done" or "raised"
  kind,    \* the class of the constructed module
  cfg,     \* its constructor arguments
  blocks,  \* the module's blocks, as instance ids (a stack's nn.ModuleList)
  heap,    \* instance id -> object (the parameters)
  call,    \* the arguments of the running or last forward call
  cur,     \* the local X of a stack's forward
  I,       \* the local I of aPMA.forward
  i,       \* the loop position of a stack's or aPMA's forward
  seen,    \* the blocks a stack's forward has applied, each with the mask it got
  out,     \* the value the last forward call returned
  prev,    \* the completed call before the last one
  run      \* the tensors the last MAB.forward of a MAB module computed

vars == <<pc, kind, cfg, blocks, heap, call, cur, I, i, seen, out, prev, run>>

Kinds == {"MAB", "SAB", "StackedSAB", "PMA", "ISAB", "StackedISAB", "aPMA"}

NoCall == [X |-> NoTensor, Y |-> NoTensor, mask |-> None, num_iters |-> 0]

NoPrev == [call |-> NoCall, out |-> NoTensor]

NoRun ==
  [Q |-> NoTensor, Q_ |-> NoTensor, K_ |-> NoTensor, V_ |-> NoTensor,
   A_logits |-> NoTensor, A |-> NoTensor, attn |-> NoTensor, O |-> NoTensor]

NoCfg ==
  [dim_X |-> 0, dim_Y |-> 0, dim |-> 0, num_heads |-> 0, residual |-> FALSE,
   num_inds |-> 0, num_blocks |-> 0, seed |-> 0]

Kw(c) == [num_heads |-> c.num_heads, residual |-> c.residual]

Init ==
  /\ pc = "start"
  /\ kind = "none"
  /\ cfg = NoCfg
  /\ blocks = <<>>
  /\ heap = <<>>
  /\ call = NoCall
  /\ cur = NoTensor
  /\ I = NoTensor
  /\ i = 0
  /\ seen = <<>>
  /\ out = NoTensor
  /\ prev = NoPrev
  /\ run = NoRun

----------------------------------------------------------------------------
(* Construction *)

\* the object a class's __init__ builds; in a stack, instance 1 is the first
\* block (dim_X -> dim) and instance 2 the later one (dim -> dim)
NewObj(k, c, id, seed) ==
  CASE k = "MAB" -> NewMABObj(c.dim_X, c.dim_Y, c.dim, Kw(c), seed)
    [] k = "SAB" -> NewSAB(c.dim_X, c.dim, Kw(c), seed)
    [] k = "PMA" -> NewPMAObj(c.dim_X, c.dim, c.num_inds, Kw(c), seed)
    [] k = "ISAB" -> NewISAB(c.dim_X, c.dim, c.num_inds, Kw(c), seed)
    [] k = "aPMA" -> NewaPMA(c.dim_X, c.dim, Kw(c), seed)
    [] k = "StackedSAB" ->
         NewSAB(IF id = 1 THEN c.dim_X ELSE c.dim, c.dim, Kw(c), seed)
    [] k = "StackedISAB" ->
         NewISAB(IF id = 1 THEN c.dim_X ELSE c.dim, c.dim, c.num_inds, Kw(c), seed)

\* StackedSAB.__init__ and StackedISAB.__init__: the block list
ModuleList(k, c) ==
  IF k \in {"StackedSAB", "StackedISAB"} THEN StackBlocks(c.num_blocks) ELSE <<1>>

\* __init__ of class k with arguments c; no constructor checks its arguments
Construct(k, c) ==
  /\ pc = "start"
  /\ pc' = "built"
  /\ kind' = k
  /\ cfg' = c
  /\ blocks' = ModuleList(k, c)
  /\ heap' = [id \in Range(ModuleList(k, c)) |-> NewObj(k, c, id, c.seed + id - 1)]
  /\ UNCHANGED <<call, cur, I, i, seen, out, prev, run>>

----------------------------------------------------------------------------
(* Forward calls *)

Result(T) == IF IsRaise(T) THEN "raised" ELSE "done"

\* MAB.forward(X, Y, mask)
MABCall(a) ==
  /\ kind = "MAB"
  /\ call' = a
  /\ run' = MABRun(heap[1].mab, a.X, a.Y, a.mask)
  /\ out' = run'.O
  /\ pc' = Result(out')
  /\ UNCHANGED <<kind, cfg, blocks, heap, cur, I, i, seen>>

\* SAB.forward(X, mask)
SABCall(a) ==
  /\ kind = "SAB"
  /\ call' = a
  /\ out' = SABForward(heap[1], a.X, a.mask)
  /\ pc' = Result(out')
  /\ UNCHANGED <<kind, cfg, blocks, heap, cur, I, i, seen, run>>

\* PMA.forward(X, mask)
PMACall(a) ==
  /\ kind = "PMA"
  /\ call' = a
  /\ out' = PMAForward(heap[1].pma, a.X, a.mask)
  /\ pc' = Result(out')
  /\ UNCHANGED <<kind, cfg, blocks, heap, cur, I, i, seen, run>>

\* ISAB.forward(X, mask)
ISABCall(a) ==
  /\ kind = "ISAB"
  /\ call' = a
  /\ out' = ISABForward(heap[1], a.X, a.mask)
  /\ pc' = Result(out')
  /\ UNCHANGED <<kind, cfg, blocks, heap, cur, I, i, seen, run>>

\* StackedSAB.forward and StackedISAB.forward: entry
StackCall(a) ==
  /\ kind \in {"StackedSAB", "StackedISAB"}
  /\ call' = a
  /\ cur' = a.X
  /\ i' = 1
  /\ seen' = <<>>
  /\ out' = NoTensor
  /\ pc' = "stack"
  /\ UNCHANGED <<kind, cfg, blocks, heap, I, run>>

\* one iteration of `for sab in self.blocks: X = sab(X, mask=mask)`
BlockForward(o, X, mask) ==
  IF kind = "StackedSAB" THEN SABForward(o, X, mask) ELSE ISABForward(o, X, mask)

\* the iteration with the mask dropped
StackStepNoMask ==
  /\ pc = "stack" /\ i <= Len(blocks)
  /\ cur' = BlockForward(heap[blocks[i]], cur, None)
  /\ seen' = Append(seen, [id |-> blocks[i], mask |-> None])
  /\ i' = i + 1
  /\ pc' = IF IsRaise(cur') THEN "raised" ELSE "stack"
  /\ UNCHANGED <<kind, cfg, blocks, heap, call, I, out, prev, run>>

StackStep ==
  /\ pc = "stack" /\ i <= Len(blocks)
  /\ cur' = BlockForward(heap[blocks[i]], cur, call.mask)
  /\ seen' = Append(seen, [id |-> blocks[i], mask |-> call.mask])
  /\ i' = i + 1
  /\ pc' = IF IsRaise(cur') THEN "raised" ELSE "stack"
  /\ UNCHANGED <<kind, cfg, blocks, heap, call, I, out, prev, run>>

\* `return X`
StackReturn ==
  /\ pc = "stack" /\ i > Len(blocks)
  /\ out' = cur
  /\ pc' = "done"
  /\ UNCHANGED <<kind, cfg, blocks, heap, call, cur, I, i, seen, prev, run>>

\* aPMA.forward(X, num_iters): `I = self.I0`
aPMACall(a) ==
  /\ kind = "aPMA"
  /\ call' = a
  /\ I' = heap[1].I0
  /\ i' = 1
  /\ out' = NoTensor
  /\ pc' = "apma"
  /\ UNCHANGED <<kind, cfg, blocks, heap, cur, seen, run>>

\* the iteration with the new vector replacing the collection
aPMAStepReplace ==
  /\ pc = "apma" /\ i < call.num_iters
  /\ I' = PMAForward(heap[1].pma, I, None)
  /\ i' = i + 1
  /\ pc' = IF IsRaise(I') THEN "raised" ELSE "apma"
  /\ UNCHANGED <<kind, cfg, blocks, heap, call, cur, seen, out, prev, run>>

\* the iteration with the collection written back to the seed I0
aPMAStepInPlace ==
  /\ pc = "apma" /\ i < call.num_iters
  /\ I' = Cat(<<I, PMAForward(heap[1].pma, I, None)>>, 1)
  /\ heap' = [heap EXCEPT ![1].I0 = I']
  /\ i' = i + 1
  /\ pc' = IF IsRaise(I') THEN "raised" ELSE "apma"
  /\ UNCHANGED <<kind, cfg, blocks, call, cur, seen, out, prev, run>>

\* one iteration of `for i in range(1, num_iters): I = torch.cat([I, self.pma(I)], 1)`
aPMAStep ==
  /\ pc = "apma" /\ i < call.num_iters
  /\ I' = Cat(<<I, PMAForward(heap[1].pma, I, None)>>, 1)
  /\ i' = i + 1
  /\ pc' = IF IsRaise(I') THEN "raised" ELSE "apma"
  /\ UNCHANGED <<kind, cfg, blocks, heap, call, cur, seen, out, prev, run>>

\* `return self.mab(I.repeat(X.shape[0], 1, 1), X)`
aPMAReturn ==
  /\ pc = "apma" /\ i >= call.num_iters
  /\ out' = MABForward(heap[1].mab, Repeat(I, Len(call.X)), call.X, None)
  /\ pc' = Result(out')
  /\ UNCHANGED <<kind, cfg, blocks, heap, call, cur, I, i, seen, prev, run>>

----------------------------------------------------------------------------
(* The environment: the caller takes the result (or the exception) and the  *)
(* module is ready for its next call; between calls an optimizer step of    *)
(* the external training loop rewrites the parameters of every instance.    *)

Drop ==
  /\ pc \in {"done", "raised"}
  /\ pc' = "built"
  /\ call' = NoCall
  /\ cur' = NoTensor
  /\ I' = NoTensor
  /\ i' = 0
  /\ seen' = <<>>
  /\ out' = NoTensor
  /\ prev' = NoPrev
  /\ run' = NoRun
  /\ UNCHANGED <<kind, cfg, blocks, heap>>

MaxSeed == 1

Train ==
  /\ pc = "built"
  /\ \E s \in 0..MaxSeed :
       /\ heap' = [id \in DOMAIN heap |-> NewObj(kind, cfg, id, s + id - 1)]
       /\ heap' # heap
  /\ UNCHANGED <<pc, kind, cfg, blocks, call, cur, I, i, seen, out, prev, run>>

----------------------------------------------------------------------------
(* Construction arguments and inputs of the main specification: every       *)
(* class, every dim and num_heads up to the bounds (dim_X and dim_Y up to   *)
(* MaxDimX for MAB, 1 for the classes built from it), tensors of ones.      *)

MaxDimX == 2

MaxDim == 4

MaxHeads == 2

MaxInds == 2

MaxBlocks == 3

MaxBatch == 2

MaxN == 2

MaxIters == 3

Configs(k) ==
  {[dim_X |-> dx, dim_Y |-> dy, dim |-> d, num_heads |-> h, residual |-> r,
    num_inds |-> ni, num_blocks |-> nb, seed |-> 0] :
     dx \in IF k = "MAB" THEN 1..MaxDimX ELSE {1},
     dy \in IF k = "MAB" THEN 1..MaxDimX ELSE {0},
     d \in 1..MaxDim, h \in 1..MaxHeads, r \in IF k = "MAB" THEN BOOLEAN ELSE {TRUE},
     ni \in IF k \in {"PMA", "ISAB", "StackedISAB"} THEN 1..MaxInds ELSE {0},
     nb \in IF k \in {"StackedSAB", "StackedISAB"} THEN 0..MaxBlocks ELSE {0}}

Ones(b, n, d) == Fill(b, n, d, R(1))

\* the masks of b padded sets of n positions, len of them valid
PaddingMasks(b, n) ==
  {[e \in 1..b |-> [j \in 1..n |-> IF j <= len THEN 1 ELSE 0]] : len \in 0..n}

\* the arguments of a forward call to the constructed module
Inputs ==
  {[X |-> Ones(b, nx, cfg.dim_X),
    Y |-> IF kind = "MAB" THEN Ones(b, ny, cfg.dim_Y) ELSE NoTensor,
    mask |-> m, num_iters |-> k] :
     b \in 1..MaxBatch, nx \in 1..MaxN,
     ny \in IF kind = "MAB" THEN 1..MaxN ELSE {0},
     k \in IF kind = "aPMA" THEN 1..MaxIters ELSE {0},
     m \in {None}} \cup
  {[X |-> Ones(Len(m), IF kind = "MAB" THEN nx ELSE Len(m[1]), cfg.dim_X),
    Y |-> IF kind = "MAB" THEN Ones(Len(m), Len(m[1]), cfg.dim_Y) ELSE NoTensor,
    mask |-> m, num_iters |-> 0] :
     nx \in IF kind = "MAB" THEN 1..MaxN ELSE {0},
     m \in IF kind = "aPMA" THEN {}
           ELSE UNION {PaddingMasks(b, n) : b \in 1..MaxBatch, n \in 1..MaxN}}

\* the module is constructed and no call is running
Idle == pc = "built"

Next ==
  \/ pc = "start" /\ \E k \in Kinds : \E c \in Configs(k) : Construct(k, c)
  \/ Idle /\ \E a \in Inputs : MABCall(a) /\ UNCHANGED prev
  \/ Idle /\ \E a \in Inputs : SABCall(a) /\ UNCHANGED prev
  \/ Idle /\ \E a \in Inputs : PMACall(a) /\ UNCHANGED prev
  \/ Idle /\ \E a \in Inputs : ISABCall(a) /\ UNCHANGED prev
  \/ Idle /\ \E a \in Inputs : StackCall(a) /\ UNCHANGED prev
  \/ StackStep
  \/ StackReturn
  \/ Idle /\ \E a \in Inputs : aPMACall(a) /\ UNCHANGED prev
  \/ aPMAStep
  \/ aPMAReturn
  \/ Drop
  \/ Train

Spec == Init /\ [][Next]_vars

----------------------------------------------------------------------------
(* The value specification: MAB, PMA, ISAB and aPMA of one dimension, on    *)
(* every input tensor and mask over 0..MaxVal, each call followed by a      *)
(* second call on a variant of its input: the set permuted, or the content  *)
(* of the masked key positions rewritten.                                   *)

ValDim == 2

MaxVal == 1

ValKinds == {"MAB", "PMA", "ISAB", "aPMA"}

ValConfigs(k) ==
  {[dim_X |-> 1, dim_Y |-> IF k = "MAB" THEN 1 ELSE 0, dim |-> ValDim,
    num_heads |-> h, residual |-> r, num_inds |-> ni, num_blocks |-> 0,
    seed |-> 0] :
     h \in 1..MaxHeads, r \in IF k = "MAB" THEN BOOLEAN ELSE {TRUE},
     ni \in IF k \in {"PMA", "ISAB"} THEN 1..MaxInds ELSE {0}}

\* every [b, n, d] tensor over 0..MaxVal
TensorsOf(b, n, d) == [1..b -> [1..n -> [1..d -> {R(v) : v \in 0..MaxVal}]]]

\* every [b, n] mask
MasksOf(b, n) == [1..b -> [1..n -> {0, 1}]]

\* every shape of b sets of n positions
Sizes == (1..MaxBatch) \X (1..MaxN)

\* every mask of a [b, n] set tensor, and no mask
MasksFor(b, n) == {None} \cup MasksOf(b, n)

ValInputs ==
  IF kind = "MAB" THEN
    UNION {{[X |-> Ones(sz[1], nx, cfg.dim_X), Y |-> y, mask |-> m,
             num_iters |-> 0] :
              nx \in 1..MaxN,
              y \in TensorsOf(sz[1], sz[2], cfg.dim_Y),
              m \in MasksFor(sz[1], sz[2])} : sz \in Sizes}
  ELSE IF kind = "aPMA" THEN
    UNION {{[X |-> x, Y |-> NoTensor, mask |-> None, num_iters |-> k] :
              k \in 1..MaxIters,
              x \in TensorsOf(sz[1], sz[2], cfg.dim_X)} : sz \in Sizes}
  ELSE
    UNION {{[X |-> x, Y |-> NoTensor, mask |-> m, num_iters |-> 0] :
              x \in TensorsOf(sz[1], sz[2], cfg.dim_X),
              m \in MasksFor(sz[1], sz[2])} : sz \in Sizes}

Perms(n) == {p \in [1..n -> 1..n] : \A x, y \in 1..n : p[x] = p[y] => x = y}

\* T (a [b, n, d] tensor or a [b, n] mask) with set e reordered by p[e]
PermuteSets(T, p) == [e \in 1..Len(T) |-> [j \in 1..Len(T[e]) |-> T[e][p[e][j]]]]

PermuteCall(a, p) ==
  [a EXCEPT !.X = PermuteSets(a.X, p),
            !.mask = IF a.mask = None THEN None ELSE PermuteSets(a.mask, p)]

\* Y and Z hold the same content at every position the mask marks valid
SameOnValid(Y, Z, mask) ==
  /\ Shape(Y) = Shape(Z)
  /\ \A e \in 1..Len(Y) : \A j \in 1..Len(Y[e]) : mask[e][j] = 1 => Y[e][j] = Z[e][j]

\* Y with the content of every position the mask marks invalid set to v
Rewrite(Y, mask, v) ==
  [e \in 1..Len(Y) |-> [j \in 1..Len(Y[e]) |->
     IF mask[e][j] = 1 THEN Y[e][j] ELSE [k \in 1..Len(Y[e][j]) |-> R(v)]]]

\* the inputs of the second call, after the call a
Variants(a) ==
  IF kind = "MAB" THEN
    IF a.mask = None THEN {}
    ELSE {[a EXCEPT !.Y = Rewrite(a.Y, a.mask, v)] : v \in 0..MaxVal} \ {a}
  ELSE {PermuteCall(a, p) : p \in [1..Len(a.X) -> Perms(Len(a.X[1]))]} \ {a}

\* a first call has returned
Returned == pc = "done" /\ prev = NoPrev

Last == [call |-> call, out |-> out]

NextVal ==
  \/ pc = "start" /\ \E k \in ValKinds : \E c \in ValConfigs(k) : Construct(k, c)
  \/ Idle /\ \E a \in ValInputs : MABCall(a) /\ UNCHANGED prev
  \/ Idle /\ \E a \in ValInputs : PMACall(a) /\ UNCHANGED prev
  \/ Idle /\ \E a \in ValInputs : ISABCall(a) /\ UNCHANGED prev
  \/ Idle /\ \E a \in ValInputs : aPMACall(a) /\ UNCHANGED prev
  \/ Returned /\ \E a \in Variants(call) : MABCall(a) /\ prev' = Last
  \/ Returned /\ \E a \in Variants(call) : PMACall(a) /\ prev' = Last
  \/ Returned /\ \E a \in Variants(call) : ISABCall(a) /\ prev' = Last
  \/ Returned /\ \E a \in Variants(call) : aPMACall(a) /\ prev' = Last
  \/ aPMAStep
  \/ aPMAReturn
  \/ Drop

SpecVal == Init /\ [][NextVal]_vars

----------------------------------------------------------------------------
(* Properties.  Preconditions common to several of them come first.         *)

\* the MAB call has returned
MABDone == kind = "MAB" /\ pc = "done"

\* the batch elements whose mask row marks no position valid
EmptySets(mask) ==
  IF mask = None THEN {}
  ELSE {e \in 1..Len(mask) : \A j \in 1..Len(mask[e]) : mask[e][j] = 0}

AllEntries(T, P(_)) ==
  \A x \in 1..Len(T) : \A k \in 1..Len(T[x]) : P(T[x][k])

\* the feed-forward tail of MAB.forward on O1: O1 + relu(fc_o(O1))
FeedForward(P, O1) == Add(O1, Map1(RRelu, Linear(P.fc_o, O1)))

\* the per-set permutations of a call's sets
SetPerms(a) == [1..Len(a.X) -> Perms(Len(a.X[1]))]

\* the last call is the call before it with its sets reordered
Permuted == prev # NoPrev /\ \E p \in SetPerms(prev.call) : call = PermuteCall(prev.call, p)

----------------------------------------------------------------------------
\* C1 (as stated): a module exists only if its dim is divisible by its
\* num_heads: construction with any other pair fails.
C1_FailsAtConstruction == pc # "start" => cfg.dim % cfg.num_heads = 0

\* a MAB with dim not divisible by num_heads was constructed, and its forward
\* call raised
C1_Witness ==
  /\ kind = "MAB" /\ cfg.dim = 3 /\ cfg.num_heads = 2
  /\ pc = "raised" /\ call.mask = None

----------------------------------------------------------------------------
----------------------------------------------------------------------------
\* C3: two returned MAB.forward calls on the same module with the same X and
\* mask, whose Y agree on every position the mask marks valid, return the
\* same output.
C3_MaskNonInterference ==
  /\ MABDone /\ prev # NoPrev /\ call.mask # None
  /\ prev.call.X = call.X /\ prev.call.mask = call.mask
  /\ SameOnValid(prev.call.Y, call.Y, call.mask)
  => out = prev.out

\* two such calls whose Y differ at an invalid position of a set that also
\* has a valid one
C3_Witness ==
  /\ MABDone /\ prev # NoPrev
  /\ prev.call.X = call.X /\ prev.call.mask = call.mask
  /\ call.mask = <<<<1, 0>>, <<0, 1>>>>
  /\ SameOnValid(prev.call.Y, call.Y, call.mask)
  /\ prev.call.Y[1][2] # call.Y[1][2]
  /\ out = prev.out

----------------------------------------------------------------------------
\* C4: MAB.forward of a module with dim divisible by num_heads, on X of
\* shape [batch, nx, dim_X], Y of shape [batch, ny, dim_Y] and a mask that is
\* absent or of shape [batch, ny], returns: the heads are stacked to
\* [batch*num_heads, n, dim/num_heads], the logits have shape
\* [batch*num_heads, nx, ny], and the output has shape [batch, nx, dim].
C4_Shapes ==
  /\ kind = "MAB" /\ pc \in {"done", "raised"}
  /\ cfg.dim % cfg.num_heads = 0
  /\ call.mask # None => Shape(<<call.mask>>) = <<1, Len(call.Y), Len(call.Y[1])>>
  => LET b == Len(call.X)
         nx == Len(call.X[1])
         ny == Len(call.Y[1])
         nh == cfg.num_heads
     IN /\ pc = "done"
        /\ Shape(run.Q_) = <<b * nh, nx, cfg.dim \div nh>>
        /\ Shape(run.K_) = <<b * nh, ny, cfg.dim \div nh>>
        /\ Shape(run.V_) = <<b * nh, ny, cfg.dim \div nh>>
        /\ Shape(run.A_logits) = <<b * nh, nx, ny>>
        /\ Shape(run.attn) = <<b, nx, cfg.dim>>
        /\ Shape(out) = <<b, nx, cfg.dim>>

\* a returned masked call of a two-head MAB with dim 4 on two sets, with
\* nx # ny and dim_X # dim_Y
C4_Witness ==
  /\ MABDone /\ cfg.num_heads = 2 /\ cfg.dim = 4 /\ cfg.dim_X # cfg.dim_Y
  /\ call.mask # None
  /\ Shape(call.X) = <<2, 1, cfg.dim_X>> /\ Shape(call.Y) = <<2, 2, cfg.dim_Y>>
  /\ Shape(run.Q_) = <<4, 1, 2>> /\ Shape(out) = <<2, 1, 4>>

----------------------------------------------------------------------------
\* C5: aPMA.forward(X, num_iters) starts from the single seed I0; each loop
\* iteration appends exactly one vector and leaves those before it in place;
\* the final MAB runs once, after the last iteration, and the call returns
\* num_iters vectors per batch element, of shape [batch, num_iters, dim].
C5_Grows ==
  /\ [](kind = "aPMA" /\ pc = "apma" =>
          /\ Shape(I) = <<1, i, cfg.dim>>
          /\ i <= call.num_iters
          /\ I[1][1] = heap[1].I0[1][1]
          /\ out = NoTensor)
  /\ [](kind = "aPMA" /\ pc = "done" =>
          /\ i = call.num_iters
          /\ Shape(out) = <<Len(call.X), call.num_iters, cfg.dim>>)
  /\ [][kind = "aPMA" /\ pc = "apma" /\ pc' = "apma" =>
          /\ Len(I'[1]) = Len(I[1]) + 1
          /\ SubSeq(I'[1], 1, Len(I[1])) = I[1]]_vars

\* a returned aPMA call with the largest num_iters, on two sets
C5_Witness ==
  /\ kind = "aPMA" /\ pc = "done" /\ call.num_iters = MaxIters
  /\ Len(call.X) = 2
  /\ Shape(I) = <<1, MaxIters, cfg.dim>>
  /\ Shape(out) = <<2, MaxIters, cfg.dim>>

----------------------------------------------------------------------------
\* C6: a PMA.forward or aPMA.forward call on the input of the call before it
\* with the positions of every set (and of its mask row) permuted returns the
\* same output.
C6_PoolingInvariant ==
  kind \in {"PMA", "aPMA"} /\ pc = "done" /\ Permuted => out = prev.out

\* such a pair of PMA calls with a mask that is not symmetric, and such a pair
\* of aPMA calls
C6_Witness ==
  /\ kind \in {"PMA", "aPMA"} /\ pc = "done" /\ Permuted
  /\ call.X # prev.call.X /\ out = prev.out
  /\ \/ kind = "PMA" /\ prev.call.mask = <<<<1, 0>>>> /\ call.mask = <<<<0, 1>>>>
     \/ kind = "aPMA" /\ call.num_iters = MaxIters

----------------------------------------------------------------------------
\* C7 (as stated): an ISAB.forward call on the input of the call before it
\* with the positions of every set (and of its mask row) permuted returns the
\* same output.
C7_ISABInvariant ==
  kind = "ISAB" /\ pc = "done" /\ Permuted => out = prev.out

\* C7 (amended): an ISAB.forward call on the input of the call before it with
\* the positions of every set (and of its mask row) permuted returns the
\* output of that call with the rows of every set permuted the same way.
C7_ISABEquivariant ==
  kind = "ISAB" /\ pc = "done" /\ prev # NoPrev =>
    \A p \in SetPerms(prev.call) :
      call = PermuteCall(prev.call, p) => out = PermuteSets(prev.out, p)

\* such a pair of masked ISAB calls whose outputs differ
C7_Witness ==
  /\ kind = "ISAB" /\ pc = "done" /\ Permuted
  /\ call.mask # None
  /\ out # prev.out

----------------------------------------------------------------------------
\* C8: the forward of a StackedSAB or StackedISAB built with num_blocks >= 1
\* applies the blocks of its list in order, each to the output of the one
\* before it and each with the caller's mask; the first block maps dim_X to
\* dim, the later ones dim to dim; the output has the input's batch and set
\* size and feature dimension dim.
C8_StackInOrder ==
  kind \in {"StackedSAB", "StackedISAB"} /\ cfg.num_blocks >= 1 =>
    /\ \A id \in DOMAIN heap :
         /\ Len(heap[id].mab.fc_q.W[1]) = IF id = 1 THEN cfg.dim_X ELSE cfg.dim
         /\ Len(heap[id].mab.fc_o.W) = cfg.dim
    /\ pc \in {"stack", "done"} =>
         /\ Len(seen) = i - 1
         /\ \A j \in 1..Len(seen) :
              seen[j] = [id |-> blocks[j], mask |-> call.mask]
         /\ Shape(cur) = <<Len(call.X), Len(call.X[1]),
                           IF i = 1 THEN cfg.dim_X ELSE cfg.dim>>
    /\ pc = "done" =>
         /\ Len(seen) = cfg.num_blocks
         /\ out = cur
         /\ Shape(out) = <<Len(call.X), Len(call.X[1]), cfg.dim>>

\* a returned masked call of a stack of the largest number of blocks, with
\* dim # dim_X
C8_Witness ==
  /\ kind \in {"StackedSAB", "StackedISAB"} /\ pc = "done"
  /\ cfg.num_blocks = MaxBlocks /\ cfg.dim = 4 /\ cfg.dim_X = 1
  /\ call.mask = <<<<1, 0>>, <<1, 0>>>>
  /\ Len(seen) = cfg.num_blocks
  /\ Shape(out) = <<2, 2, 4>>

----------------------------------------------------------------------------
\* C9: no step of a forward call changes a parameter (the projections, the
\* PMA seeds I, the aPMA seed I0) or the mask the caller passed.
C9_ForwardKeepsParameters ==
  [][pc # "start" /\ pc' \in {"stack", "apma", "done", "raised"} =>
       /\ heap' = heap
       /\ pc # "built" => call'.mask = call.mask]_vars

\* a returned three-iteration aPMA call after which the seeds are those the
\* call started with
C9_Witness ==
  /\ kind = "aPMA" /\ pc = "done" /\ call.num_iters = MaxIters
  /\ I[1][1] = heap[1].I0[1][1]
  /\ heap[1].pma.I # NoTensor

----------------------------------------------------------------------------
\* C10: the block list of a StackedSAB or StackedISAB built with num_blocks
\* has max(num_blocks, 1) entries; the entries from the second on are one
\* instance, so the stack holds at most two parameter sets and every later
\* block has the parameters an update gave any of them.
C10_SharedBlocks ==
  kind \in {"StackedSAB", "StackedISAB"} =>
    /\ Len(blocks) = Max(cfg.num_blocks, 1)
    /\ \A j, k \in 2..Len(blocks) : blocks[j] = blocks[k]
    /\ Cardinality(Range(blocks)) <= 2
    /\ DOMAIN heap = Range(blocks)
    /\ \A j, k \in 2..Len(blocks) : heap[blocks[j]] = heap[blocks[k]]

\* a stack of the largest number of blocks whose later block has been updated
C10_Witness ==
  /\ kind \in {"StackedSAB", "StackedISAB"} /\ cfg.num_blocks = MaxBlocks
  /\ Len(blocks) = MaxBlocks /\ blocks[2] = blocks[MaxBlocks]
  /\ heap[2] # NewObj(kind, cfg, 2, cfg.seed + 1)

====
